---- MODULE Spec2Model ----
(***************************************************************************)
(* Item service handler of the serverless API                              *)
(* (src/aws-python/serverless-api/__main__.py, lambda_code, lines 89-150)  *)
(* together with the table it reads and writes (lines 24-42).              *)
(*                                                                         *)
(* Text is a sequence of one-character strings, so that startswith and     *)
(* split are computed on characters.  A JSON object is a function from     *)
(* attribute names to tagged values; a JSON number is the integer          *)
(* hi * 2^30 + lo, wide enough to hold integers beyond the 53-bit          *)
(* mantissa of a Python float.                                             *)
(***************************************************************************)
EXTENDS Integers, Sequences, FiniteSets, TLC

\* Number of invocation slots the platform runs concurrently.
NumInv == 2

Slots == 1..NumInv

----------------------------------------------------------------------------
(* JSON values *)

Base == 2^30

\* Width of the significand of a Python float (IEEE-754 binary64).
MantissaBits == 53

Str(chars) == [type |-> "S", s |-> chars]

Num(hi, lo) == [type |-> "N", hi |-> hi, lo |-> lo]

RECURSIVE BitLen(_)
BitLen(n) == IF n = 0 THEN 0 ELSE 1 + BitLen(n \div 2)

\* float(obj) for a Decimal holding a non-negative integer: the nearest
\* binary64 value, ties to even.
float(d) ==
    LET bits   == IF d.hi = 0 THEN BitLen(d.lo) ELSE 30 + BitLen(d.hi)
        excess == bits - MantissaBits
    IN  IF excess <= 0 THEN d
        ELSE LET ulp == 2^excess
                 q   == d.lo \div ulp
                 r   == d.lo % ulp
                 up  == (2 * r > ulp) \/ (2 * r = ulp /\ q % 2 = 1)
                 lo2 == (IF up THEN q + 1 ELSE q) * ulp
             IN  IF lo2 = Base THEN Num(d.hi + 1, 0) ELSE Num(d.hi, lo2)

\* DecimalEncoder.default applied by json.dumps to one stored value: a Decimal
\* becomes a float, every other value is encoded as it is.
DecimalEncoder(v) == IF v.type = "N" THEN float(v) ELSE v

\* json.dumps(obj, cls=DecimalEncoder) of one stored item.
dumps(item) == [a \in DOMAIN item |-> DecimalEncoder(item[a])]

----------------------------------------------------------------------------
(* Text *)

ITEMS == <<"/", "i", "t", "e", "m", "s">>

ITEMS_SLASH == ITEMS \o <<"/">>

\* str.startswith
startswith(s, p) == Len(s) >= Len(p) /\ SubSeq(s, 1, Len(p)) = p

\* str.split('/'): the pieces between the slashes, empty pieces included.
RECURSIVE split(_)
split(s) ==
    LET cut == {k \in 1..Len(s) : s[k] = "/"}
    IN  IF cut = {} THEN <<s>>
        ELSE LET k == CHOOSE c \in cut : \A d \in cut : c <= d
             IN  <<SubSeq(s, 1, k - 1)>> \o split(SubSeq(s, k + 1, Len(s)))

\* path.split('/')[-1]
item_id_of(p) == split(p)[Len(split(p))]

----------------------------------------------------------------------------
(* The table: hash key "id" of type S *)

\* put_item accepts an item only when it carries the hash key as a string.
ValidKey(item) == "id" \in DOMAIN item /\ item["id"].type = "S"

ids(C) == {it["id"] : it \in C}

\* table.scan()['Items']
scan(C) == C

\* table.get_item(Key={'id': key}): the set holds the item when the response
\* has an 'Item' entry and is empty otherwise.
get_item(C, key) == {it \in C : it["id"] = Str(key)}

Merge(old, new) ==
    [a \in DOMAIN old \cup DOMAIN new |-> IF a \in DOMAIN new THEN new[a] ELSE old[a]]

\* table.put_item(Item=item): the item replaces the one stored under its id.
put_item_Merge(C, item) ==
    LET prior == {it \in C : it["id"] = item["id"]}
    IN  {it \in C : it["id"] # item["id"]}
          \cup (IF prior = {} THEN {item} ELSE {Merge(old, item) : old \in prior})

put_item_Reset(C, item) == {item}

put_item(C, item) == {it \in C : it["id"] # item["id"]} \cup {item}

----------------------------------------------------------------------------
(* The handler's pure parts *)

\* Whether json.loads(event['body']) raises: it does for None and for text
\* that is not JSON.
loads_raises_Lenient(raw) == raw.kind = "malformed"

loads_raises(raw) == raw.kind # "json"

loads_error(raw) ==
    IF raw.kind = "null"
    THEN "the JSON object must be str, bytes or bytearray, not NoneType"
    ELSE "Expecting value: line 1 column 1 (char 0)"

\* The object with no attributes.
EmptyObject == [a \in {} |-> Str(<<>>)]

\* The value json.loads returns for the text of a body.
loads(raw) == IF raw.kind = "json" THEN raw.value ELSE EmptyObject

\* The if / elif chain of the handler: which branch serves (method, path).
Route_AnyMethodPut(method, p) ==
    IF method = "GET" /\ p = ITEMS THEN "scan"
    ELSE IF p = ITEMS THEN "put"
    ELSE IF method = "GET" /\ startswith(p, ITEMS_SLASH) THEN "get"
    ELSE "none"

Route_AnyMethodGet(method, p) ==
    IF method = "GET" /\ p = ITEMS THEN "scan"
    ELSE IF method = "POST" /\ p = ITEMS THEN "put"
    ELSE IF startswith(p, ITEMS_SLASH) THEN "get"
    ELSE "none"

Route(method, p) ==
    IF method = "GET" /\ p = ITEMS THEN "scan"
    ELSE IF method = "POST" /\ p = ITEMS THEN "put"
    ELSE IF method = "GET" /\ startswith(p, ITEMS_SLASH) THEN "get"
    ELSE "none"

JsonHeaders == [ContentType |-> "application/json"]

ItemsResponse(items) ==
    [statusCode |-> 200, headers |-> JsonHeaders,
     body |-> [array |-> {dumps(it) : it \in items}]]

CreatedResponse ==
    [statusCode |-> 201, headers |-> JsonHeaders, body |-> [message |-> "Item created"]]

ItemResponse(item) ==
    [statusCode |-> 200, headers |-> JsonHeaders, body |-> dumps(item)]

ItemNotFoundResponse == [statusCode |-> 404, body |-> [error |-> "Item not found"]]

NotFoundResponse == [statusCode |-> 404, body |-> [error |-> "Not found"]]

ErrorResponse(msg) == [statusCode |-> 500, body |-> [error |-> msg]]

NoResponse == [statusCode |-> 0]

\* The return statements of the GET /items/{id} branch.
get_response_Swapped(found) ==
    IF found # {} THEN ItemResponse(CHOOSE it \in found : TRUE) ELSE NotFoundResponse

get_response(found) ==
    IF found # {} THEN ItemResponse(CHOOSE it \in found : TRUE) ELSE ItemNotFoundResponse

StoreUnavailable == "An error occurred (ServiceUnavailable) when calling the operation"

KeyRejected == "An error occurred (ValidationException) when calling the PutItem operation"

----------------------------------------------------------------------------
(* Inputs *)

idB == <<"b">>

idAB == <<"a", "/", "b">>

Wide == Num(2^23, 1)

Items ==
    { [id |-> Str(k), name |-> Str(<<"w">>)] : k \in {idB, idAB} }
      \cup { [id |-> Str(k), qty |-> Wide] : k \in {idB, idAB} }

NoKeyItem == [name |-> Str(<<"w">>)]

NullBody == [kind |-> "null"]

Json(v) == [kind |-> "json", value |-> v]

Bodies == {NullBody, [kind |-> "malformed"]} \cup {Json(v) : v \in Items \cup {NoKeyItem}}

Paths ==
    { ITEMS, ITEMS_SLASH \o idB, ITEMS_SLASH \o idAB, ITEMS_SLASH \o <<"x">>,
      <<"/", "o">>, ITEMS \o <<"x">> }

Request(m, p, b) == [hasContext |-> TRUE, method |-> m, path |-> p, body |-> b]

\* An event without requestContext.http.
BareEvent == [hasContext |-> FALSE, method |-> "", path |-> <<>>, body |-> NullBody]

Events ==
    {BareEvent}
      \cup {Request("GET", p, NullBody) : p \in Paths}
      \cup {Request("DELETE", ITEMS, Json(CHOOSE it \in Items : it["id"] = Str(idB))),
            Request("POST", ITEMS_SLASH \o <<"x">>, NullBody)}
      \cup {Request("POST", ITEMS, b) : b \in Bodies}

\* The requests of the concurrent workload: writers of one id and readers.
ConcEvents ==
    {BareEvent, Request("GET", ITEMS, NullBody), Request("GET", ITEMS_SLASH \o idB, NullBody),
     Request("POST", ITEMS, NullBody)}
      \cup {Request("POST", ITEMS, Json(v)) : v \in {it \in Items : it["id"] = Str(idB)}}

StartCollections == { {}, {[id |-> Str(idB), name |-> Str(<<"w">>)]} }

----------------------------------------------------------------------------
(* State *)

VARIABLES
    Collection,   \* the items of the table
    pc,           \* where each invocation stands
    event,        \* the event each invocation was given
    http_method,  \* locals of handler
    path,
    body,
    item_id,
    e,            \* the message of the exception caught
    response,     \* what the invocation returned
    calls,        \* store calls made by the invocation
    put,          \* whether the invocation's put reached the store, and last
    posted,       \* per id, the item of the latest successful POST
    replaced      \* the ids a successful POST found already stored

vars == <<Collection, pc, event, http_method, path, body, item_id, e, response,
          calls, put, posted, replaced>>

locals == <<event, http_method, path, body, item_id, e, response, calls>>

Init ==
    /\ Collection \in StartCollections
    /\ pc = [i \in Slots |-> "idle"]
    /\ event = [i \in Slots |-> BareEvent]
    /\ http_method = [i \in Slots |-> ""]
    /\ path = [i \in Slots |-> <<>>]
    /\ body = [i \in Slots |-> EmptyObject]
    /\ item_id = [i \in Slots |-> <<>>]
    /\ e = [i \in Slots |-> ""]
    /\ response = [i \in Slots |-> NoResponse]
    /\ calls = [i \in Slots |-> 0]
    /\ put = [i \in Slots |-> "none"]
    /\ posted = {}
    /\ replaced = {}

\* The platform invokes handler(event, context).
Invoke(i, ev) ==
    /\ pc[i] = "idle"
    /\ pc' = [pc EXCEPT ![i] = "entry"]
    /\ event' = [event EXCEPT ![i] = ev]
    /\ UNCHANGED <<Collection, http_method, path, body, item_id, e, response, calls,
                   put, posted, replaced>>

\* http_method = event[...]['method']; path = event[...]['path'], before the
\* try block: a KeyError leaves the handler.
ReadRequest(i) ==
    /\ pc[i] = "entry"
    /\ IF event[i].hasContext
       THEN /\ http_method' = [http_method EXCEPT ![i] = event[i].method]
            /\ path' = [path EXCEPT ![i] = event[i].path]
            /\ pc' = [pc EXCEPT ![i] = "try"]
       ELSE /\ pc' = [pc EXCEPT ![i] = "raised"]
            /\ UNCHANGED <<http_method, path>>
    /\ UNCHANGED <<Collection, event, body, item_id, e, response, calls, put, posted, replaced>>

\* The if / elif chain up to the store call of the branch taken.
Dispatch(i) ==
    /\ pc[i] = "try"
    /\ LET r == Route(http_method[i], path[i])
       IN  CASE r = "scan" ->
                  /\ pc' = [pc EXCEPT ![i] = "scan"]
                  /\ UNCHANGED <<body, item_id, e, response>>
             [] r = "put" ->
                  IF loads_raises(event[i].body)
                  THEN /\ e' = [e EXCEPT ![i] = loads_error(event[i].body)]
                       /\ pc' = [pc EXCEPT ![i] = "except"]
                       /\ UNCHANGED <<body, item_id, response>>
                  ELSE /\ body' = [body EXCEPT ![i] = loads(event[i].body)]
                       /\ pc' = [pc EXCEPT ![i] = "put_item"]
                       /\ UNCHANGED <<item_id, e, response>>
             [] r = "get" ->
                  /\ item_id' = [item_id EXCEPT ![i] = item_id_of(path[i])]
                  /\ pc' = [pc EXCEPT ![i] = "get_item"]
                  /\ UNCHANGED <<body, e, response>>
             [] OTHER ->
                  /\ response' = [response EXCEPT ![i] = NotFoundResponse]
                  /\ pc' = [pc EXCEPT ![i] = "returned"]
                  /\ UNCHANGED <<body, item_id, e>>
    /\ UNCHANGED <<Collection, event, http_method, path, calls, put, posted, replaced>>

\* response = table.scan() and the return that follows it.
Scan(i, ok) ==
    /\ pc[i] = "scan"
    /\ calls' = [calls EXCEPT ![i] = @ + 1]
    /\ IF ok
       THEN /\ response' = [response EXCEPT ![i] = ItemsResponse(scan(Collection))]
            /\ pc' = [pc EXCEPT ![i] = "returned"]
            /\ UNCHANGED e
       ELSE /\ e' = [e EXCEPT ![i] = StoreUnavailable]
            /\ pc' = [pc EXCEPT ![i] = "except"]
            /\ UNCHANGED response
    /\ UNCHANGED <<Collection, event, http_method, path, body, item_id, put, posted, replaced>>

\* table.put_item(Item=body) and the return that follows it.
PutItem(i, ok) ==
    /\ pc[i] = "put_item"
    /\ calls' = [calls EXCEPT ![i] = @ + 1]
    /\ IF ok /\ ValidKey(body[i])
       THEN /\ Collection' = put_item(Collection, body[i])
            /\ posted' = {it \in posted : it["id"] # body[i]["id"]} \cup {body[i]}
            /\ replaced' = IF body[i]["id"] \in ids(Collection)
                           THEN replaced \cup {body[i]["id"]} ELSE replaced
            /\ put' = [j \in Slots |->
                         IF j = i THEN "last"
                         ELSE IF put[j] = "last" /\ body[j]["id"] = body[i]["id"]
                              THEN "superseded" ELSE put[j]]
            /\ response' = [response EXCEPT ![i] = CreatedResponse]
            /\ pc' = [pc EXCEPT ![i] = "returned"]
            /\ UNCHANGED e
       ELSE /\ e' = [e EXCEPT ![i] = IF ok THEN KeyRejected ELSE StoreUnavailable]
            /\ pc' = [pc EXCEPT ![i] = "except"]
            /\ UNCHANGED <<Collection, posted, replaced, put, response>>
    /\ UNCHANGED <<event, http_method, path, body, item_id>>

\* response = table.get_item(Key={'id': item_id}) and the returns that follow.
GetItem(i, ok) ==
    /\ pc[i] = "get_item"
    /\ calls' = [calls EXCEPT ![i] = @ + 1]
    /\ IF ok
       THEN /\ response' = [response EXCEPT ![i] = get_response(get_item(Collection, item_id[i]))]
            /\ pc' = [pc EXCEPT ![i] = "returned"]
            /\ UNCHANGED e
       ELSE /\ e' = [e EXCEPT ![i] = StoreUnavailable]
            /\ pc' = [pc EXCEPT ![i] = "except"]
            /\ UNCHANGED response
    /\ UNCHANGED <<Collection, event, http_method, path, body, item_id, put, posted, replaced>>

\* except Exception as e: return the 500 response.
Except_Retry(i) ==
    /\ pc[i] = "except"
    /\ pc' = [pc EXCEPT ![i] = "try"]
    /\ UNCHANGED <<Collection, event, http_method, path, body, item_id, e, response,
                   calls, put, posted, replaced>>

Except(i) ==
    /\ pc[i] = "except"
    /\ response' = [response EXCEPT ![i] = ErrorResponse(e[i])]
    /\ pc' = [pc EXCEPT ![i] = "returned"]
    /\ UNCHANGED <<Collection, event, http_method, path, body, item_id, e, calls,
                   put, posted, replaced>>

\* The platform takes the result (or the exception); the invocation is over
\* and nothing of it is kept.
Complete(i) ==
    /\ pc[i] \in {"returned", "raised"}
    /\ pc' = [pc EXCEPT ![i] = "idle"]
    /\ event' = [event EXCEPT ![i] = BareEvent]
    /\ http_method' = [http_method EXCEPT ![i] = ""]
    /\ path' = [path EXCEPT ![i] = <<>>]
    /\ body' = [body EXCEPT ![i] = EmptyObject]
    /\ item_id' = [item_id EXCEPT ![i] = <<>>]
    /\ e' = [e EXCEPT ![i] = ""]
    /\ response' = [response EXCEPT ![i] = NoResponse]
    /\ calls' = [calls EXCEPT ![i] = 0]
    /\ put' = [put EXCEPT ![i] = "none"]
    /\ UNCHANGED <<Collection, posted, replaced>>

\* One invocation at a time, any request.
Next ==
    \/ \E ev \in Events : Invoke(1, ev)
    \/ ReadRequest(1)
    \/ Dispatch(1)
    \/ \E ok \in BOOLEAN : Scan(1, ok)
    \/ \E ok \in BOOLEAN : PutItem(1, ok)
    \/ \E ok \in BOOLEAN : GetItem(1, ok)
    \/ Except(1)
    \/ Complete(1)

Spec == Init /\ [][Next]_vars

\* Invocations running side by side on the same table.
NextConc ==
    \E i \in Slots :
        \/ \E ev \in ConcEvents : Invoke(i, ev)
        \/ ReadRequest(i)
        \/ Dispatch(i)
        \/ \E ok \in BOOLEAN : Scan(i, ok)
        \/ \E ok \in BOOLEAN : PutItem(i, ok)
        \/ \E ok \in BOOLEAN : GetItem(i, ok)
        \/ Except(i)
        \/ Complete(i)

SpecConc == Init /\ [][NextConc]_vars

----------------------------------------------------------------------------
(* Vocabulary of the properties *)

Returned(i) == pc[i] = "returned"

\* No exception was caught in the invocation: its store call, if any, succeeded.
NoFailure(i) == e[i] = ""

\* The path /items/{id} of an id.
ItemPath(id) == ITEMS_SLASH \o id.s

\* The part of a path after its last slash.
TrailingSegment(p) ==
    LET k == CHOOSE n \in 0..Len(p) :
                 /\ n = 0 \/ p[n] = "/"
                 /\ \A j \in (n + 1)..Len(p) : p[j] # "/"
    IN  SubSeq(p, k + 1, Len(p))

UnderItems(p) == Len(p) >= Len(ITEMS_SLASH) /\ \A k \in 1..Len(ITEMS_SLASH) : p[k] = ITEMS_SLASH[k]

\* (method, path) is served by one of GET /items, POST /items, GET /items/{id}.
MatchesRoute(m, p) ==
    \/ m \in {"GET", "POST"} /\ p = ITEMS
    \/ m = "GET" /\ UnderItems(p)

\* JSON equality of a response body and an item, a number counting as equal
\* to its conversion from decimal to float.
JsonEqual(b, it) ==
    /\ DOMAIN b = DOMAIN it
    /\ \A a \in DOMAIN it :
          IF it[a].type = "N"
          THEN b[a].type = "N" /\ float(b[a]) = float(it[a])
          ELSE b[a] = it[a]

Stored(id) == {it \in Collection : it["id"] = id}

----------------------------------------------------------------------------
(* Properties *)

\* C1: after a POST /items of an item returned 201, a GET /items/{id} with the
\* item's id (store available, no later write to the id) returns 200 with a
\* body JSON-equal to the item.
C1_RoundTrip ==
    \A i \in Slots : \A it \in posted :
        (Returned(i) /\ event[i].method = "GET" /\ event[i].path = ItemPath(it["id"])
            /\ NoFailure(i))
        => (response[i].statusCode = 200 /\ JsonEqual(response[i].body, it))

\* C2: no invocation ends with an exception leaving the handler.
C2_NeverRaises == \A i \in Slots : pc[i] # "raised"

\* C3: a GET on a path under /items/ whose trailing segment is an id that is
\* not in the collection returns 404 with body {"error": "Item not found"}
\* when the store call succeeds.
C3_NeverWritten ==
    \A i \in Slots :
        (Returned(i) /\ event[i].method = "GET" /\ UnderItems(event[i].path)
            /\ NoFailure(i) /\ Str(TrailingSegment(event[i].path)) \notin ids(Collection))
        => response[i] = [statusCode |-> 404, body |-> [error |-> "Item not found"]]

C3_Witness ==
    \E i \in Slots :
        /\ Returned(i) /\ event[i].method = "GET" /\ NoFailure(i)
        /\ event[i].path = ITEMS_SLASH \o <<"x">>
        /\ Collection # {}
        /\ response[i].statusCode = 404

\* C4: a request that matches none of the three routes returns 404 with body
\* {"error": "Not found"} and makes no store call.
C4_Unmatched ==
    \A i \in Slots :
        (Returned(i) /\ ~MatchesRoute(event[i].method, event[i].path))
        => /\ response[i] = [statusCode |-> 404, body |-> [error |-> "Not found"]]
           /\ calls[i] = 0

C4_Witness ==
    \E i \in Slots :
        /\ Returned(i) /\ event[i].method = "POST"
        /\ event[i].path = ITEMS_SLASH \o <<"x">>
        /\ response[i].statusCode = 404

\* C5: a successful POST on an id already stored replaces the stored item as
\* a whole, the collection holds one item per id, and a later GET /items/{id}
\* returns the new item.
C5_UpsertOverwrite ==
    /\ \A it \in posted : Stored(it["id"]) = {it}
    /\ \A x \in Collection : \A y \in Collection : x["id"] = y["id"] => x = y
    /\ \A i \in Slots : \A it \in posted :
          (it["id"] \in replaced /\ Returned(i) /\ event[i].method = "GET"
              /\ event[i].path = ItemPath(it["id"]) /\ NoFailure(i))
          => (response[i].statusCode = 200 /\ JsonEqual(response[i].body, it))

\* C6: a GET /items whose scan succeeds returns 200 with an array that holds
\* every item posted so far (the latest one of each id).
C6_ScanContainsPosted ==
    \A i \in Slots :
        (Returned(i) /\ event[i].method = "GET" /\ event[i].path = ITEMS /\ NoFailure(i))
        => /\ response[i].statusCode = 200
           /\ \A it \in posted : \E b \in response[i].body.array : JsonEqual(b, it)

C6_Witness ==
    \E i \in Slots :
        /\ Returned(i) /\ event[i].method = "GET" /\ event[i].path = ITEMS
        /\ response[i].statusCode = 200
        /\ Cardinality(posted) = 2

Unparsable(i) ==
    /\ event[i].hasContext /\ event[i].method = "POST" /\ event[i].path = ITEMS
    /\ event[i].body.kind # "json"

\* C7: a POST /items whose body is not JSON returns 500 with an error key,
\* makes no store call and leaves the collection as it was.
C7_UnparsableBody ==
    /\ [](\A i \in Slots :
            Unparsable(i) =>
                /\ calls[i] = 0
                /\ Returned(i) =>
                      /\ response[i].statusCode = 500
                      /\ "error" \in DOMAIN response[i].body)
    /\ [][\A i \in Slots :
            (Unparsable(i) /\ pc'[i] # pc[i]) => Collection' = Collection]_vars

C7_Witness ==
    \E i \in Slots :
        /\ Unparsable(i) /\ Returned(i)
        /\ event[i].body.kind = "null"
        /\ response[i].statusCode = 500
        /\ Collection # {}

\* C8: a step of a GET invocation leaves the collection as it was, and the
\* collection changes only in the put of a POST /items invocation.
C8_GetIsPure ==
    /\ [][\A i \in Slots :
            (event[i].method = "GET" /\ pc'[i] # pc[i]) => Collection' = Collection]_vars
    /\ [][Collection' # Collection =>
            \E i \in Slots :
                /\ event[i].method = "POST" /\ event[i].path = ITEMS
                /\ pc[i] = "put_item" /\ pc'[i] = "returned"]_vars

C8_Witness ==
    \E i \in Slots :
        /\ Returned(i) /\ event[i].method = "GET"
        /\ response[i].statusCode = 200
        /\ posted # {}

\* C9: of the POSTs to one id running side by side, the stored item is in
\* full the body of the one whose put reached the store last, and every one
\* whose put succeeded returned 201.
C9_LastWriteWins ==
    /\ \A i \in Slots :
          put[i] = "last" => Stored(body[i]["id"]) = {event[i].body.value}
    /\ \A i \in Slots : \A j \in Slots :
          (put[i] = "last" /\ put[j] = "last" /\ body[i]["id"] = body[j]["id"]) => i = j
    /\ \A i \in Slots : put[i] # "none" => response[i].statusCode = 201
    /\ \A it \in posted : Stored(it["id"]) = {it}

C9_Witness ==
    \E i \in Slots : \E j \in Slots :
        /\ put[i] = "last" /\ put[j] = "superseded"
        /\ body[i]["id"] = body[j]["id"]
        /\ body[i] # body[j]
        /\ Returned(i) /\ Returned(j)

\* C10: an invocation makes at most one store call, and an invocation slot
\* holds nothing between two invocations.
C10_OneStoreCall ==
    \A i \in Slots :
        /\ calls[i] <= 1
        /\ pc[i] = "idle" =>
              /\ event[i] = BareEvent /\ http_method[i] = "" /\ path[i] = <<>>
              /\ body[i] = EmptyObject /\ item_id[i] = <<>> /\ e[i] = ""
              /\ response[i] = NoResponse /\ calls[i] = 0

C10_Witness ==
    \E i \in Slots :
        /\ Returned(i) /\ calls[i] = 1
        /\ response[i].statusCode = 500

====
